---- MODULE Spec2Model ----
(***************************************************************************)
(* Model of the Grafana dashboard plotter: plots.py (batch driver),        *)
(* dashboard.py (variable resolution, combination walk) and grafana_api.py *)
(* (datasource queries).                                                   *)
(*                                                                         *)
(* Python strings are sequences of one-character strings, so that slugs,   *)
(* substring tests and regular-expression matches are computed.            *)
(***************************************************************************)
EXTENDS Integers, Sequences, FiniteSets, TLC

\* ------------------------------------------------------------ bounds
\* Longest option list / datasource answer drawn for a variable.
MaxValues == 2
\* Longest batch of configured dashboards.
MaxBatch == 2

\* ------------------------------------------------------------ strings
Range(s) == {s[k] : k \in 1..Len(s)}

SeqsUpTo(S, n) == UNION {[1..k -> S] : k \in 0..n}

Max(S) == CHOOSE x \in S : \A y \in S : y <= x

LowerCase == {"a","b","c","d","e","f","g","h","i","j","k","l","m",
              "n","o","p","q","r","s","t","u","v","w","x","y","z"}
UpperSeq == <<"A","B","C","D","E","F","G","H","I","J","K","L","M",
              "N","O","P","Q","R","S","T","U","V","W","X","Y","Z">>
LowerSeq == <<"a","b","c","d","e","f","g","h","i","j","k","l","m",
              "n","o","p","q","r","s","t","u","v","w","x","y","z">>
UpperCase == Range(UpperSeq)
Digits == {"0","1","2","3","4","5","6","7","8","9"}

AlphaNum == LowerCase \cup UpperCase \cup Digits

\* str.lower() on one character
ToLower(c) ==
  IF c \in UpperCase THEN LowerSeq[CHOOSE k \in 1..Len(UpperSeq) : UpperSeq[k] = c]
  ELSE c

\* x in y for Python strings: x occurs as a contiguous substring of y
Contains(y, x) ==
  \E k \in 0..(Len(y) - Len(x)) : SubSeq(y, k + 1, k + Len(x)) = x

\* pattern.match(o) for a pattern of literal characters: a match at the start
StartsWith(o, pat) ==
  Len(pat) <= Len(o) /\ SubSeq(o, 1, Len(pat)) = pat

RECURSIVE KeepIdx(_, _, _)
\* the characters of t at the indices >= k that lie in keep, in order
KeepIdx(t, keep, k) ==
  IF k > Len(t) THEN <<>>
  ELSE (IF k \in keep THEN <<t[k]>> ELSE <<>>) \o KeepIdx(t, keep, k + 1)

\* slugify(text) of python-slugify with its defaults: lowercase, every run
\* of characters outside [-a-zA-Z0-9] becomes one "-", runs of "-" collapse
\* and leading and trailing "-" are stripped.
slugify(text) ==
  LET t == [k \in 1..Len(text) |->
              IF text[k] \in AlphaNum
              THEN ToLower(text[k]) ELSE "-"]
      keep == {k \in 1..Len(t) :
                 \/ t[k] # "-"
                 \/ /\ k > 1
                    /\ t[k - 1] # "-"
                    /\ \E j \in (k + 1)..Len(t) : t[j] # "-"}
  IN KeepIdx(t, keep, 1)

PngSuffix == <<".", "p", "n", "g">>

\* os.path.join(dir, name) for a relative name without separators; a path is
\* the sequence of its components.  An empty name only adds a trailing
\* separator: the path names the same directory.
os_path_join(dir, name) ==
  IF name = <<>> THEN dir ELSE Append(dir, name)

\* ------------------------------------------------------------ sentinels
ALL == <<"$","_","_","a","l","l">>
AUTO_INTERVAL ==
  <<"$","_","_","a","u","t","o","_","i","n","t","e","r","v","a","l",
    "_","i","n","t","e","r","v","a","l">>

\* ------------------------------------------------------------ grafana_api.py
LabelValuesPrefix ==
  <<"l","a","b","e","l","_","v","a","l","u","e","s","(">>

IsWs(c) == c \in {" ", "\t"}

IdentStart == LowerCase \cup UpperCase \cup {"_"}
IdentChar == IdentStart \cup Digits

\* [a-zA-Z_][a-zA-Z0-9_]*
IsIdent(s) ==
  /\ Len(s) >= 1
  /\ s[1] \in IdentStart
  /\ \A k \in 2..Len(s) : s[k] \in IdentChar

\* s without its leading whitespace
LStrip(s) ==
  LET ws == {k \in 0..Len(s) : \A j \in 1..k : IsWs(s[j])}
  IN SubSeq(s, Max(ws) + 1, Len(s))

NoMatch == [matched |-> FALSE, metric |-> <<>>, label |-> <<>>]

\* '^label_values\((?:(.+),\s*)?([a-zA-Z_][a-zA-Z0-9_]*)\)\s*$' applied with
\* match()/findall(): the groups (metric, label); an unmatched optional group
\* is ''.  The closing parenthesis is the last character that is not
\* whitespace; the greedy (.+) ends at the last comma, and what follows that
\* comma must be whitespace and the label.
label_values_regex(q) ==
  LET p == Len(LabelValuesPrefix)
      nonws == {k \in 1..Len(q) : ~IsWs(q[k])}
      e == IF nonws = {} THEN 0 ELSE Max(nonws)
      inner == SubSeq(q, p + 1, e - 1)
      commas == {k \in 1..Len(inner) : inner[k] = ","}
      c == Max(commas)
  IN IF ~(e > p /\ StartsWith(q, LabelValuesPrefix) /\ q[e] = ")")
     THEN NoMatch
     ELSE IF commas = {}
     THEN (IF IsIdent(inner)
           THEN [matched |-> TRUE, metric |-> <<>>, label |-> inner]
           ELSE NoMatch)
     ELSE (IF c > 1 /\ IsIdent(LStrip(SubSeq(inner, c + 1, Len(inner))))
           THEN [matched |-> TRUE,
                 metric |-> SubSeq(inner, 1, c - 1),
                 label |-> LStrip(SubSeq(inner, c + 1, Len(inner)))]
           ELSE NoMatch)

\* self.datasources: the answer of GET /api/datasources (grafana_api.py:70)
Datasources ==
  << [name |-> "Prometheus", uid |-> "prom-uid", type |-> "prometheus", id |-> "1"],
     [name |-> "Loki", uid |-> "loki-uid", type |-> "loki", id |-> "2"],
     [name |-> "Postgres", uid |-> "pg-uid", type |-> "postgres", id |-> "3"] >>

\* A datasource reference of a variable: its name, or the json {type, uid}.
ByName(n) == [isDict |-> FALSE, key |-> n]
ByUid(u) == [isDict |-> TRUE, key |-> u]

\* Results of a call: a list, None, or a raised exception.
List(vals) == [kind |-> "list", values |-> vals, exc |-> "none"]
None == [kind |-> "none", values |-> <<>>, exc |-> "none"]
Raise(e) == [kind |-> "raise", values |-> <<>>, exc |-> e]

\* get_datasource_json: the indices of the datasources the reference names
get_datasource_json(datasource) ==
  IF datasource.isDict
  THEN {k \in 1..Len(Datasources) : Datasources[k].uid = datasource.key}
  ELSE {k \in 1..Len(Datasources) : Datasources[k].name = datasource.key}

\* list(set(xs)): the distinct elements in the order of the set's hash table,
\* which depends on the interpreter's string hash seed: any order.
ListOfSet(S) == {s \in [1..Cardinality(S) -> S] : Range(s) = S}

\* One series of /api/v1/series: its label set.  A series whose value for the
\* queried label is '' stands for a series without that label.
SeriesOf(label, v) == IF v = <<>> THEN <<>> ELSE [l \in {label} |-> v]

\* m.get(label, '')
DictGet(m, label) == IF label \in DOMAIN m THEN m[label] ELSE <<>>

\* The filter of the series path (grafana_api.py:198)
SeriesKeep(v) == v # ALL /\ v # <<>>

\* __prom_label_values: every result the call can have against a datasource
\* whose answer is data.  A request that is not ok raises ApiError.
prom_label_values(metric, label, data) ==
  IF metric = <<>>
  THEN {Raise("ApiError"), List(data)}
  ELSE LET series == [k \in 1..Len(data) |-> SeriesOf(label, data[k])]
           got == [k \in 1..Len(series) |-> DictGet(series[k], label)]
           kept == SelectSeq(got, SeriesKeep)
       IN {Raise("ApiError")} \cup {List(o) : o \in ListOfSet(Range(kept))}

\* query_prometheus: None when the query is not a label_values query
query_prometheus(query, data) ==
  LET m == label_values_regex(query)
  IN IF m.matched THEN prom_label_values(m.metric, m.label, data) ELSE {None}

\* execute_query
execute_query(query, datasource, data) ==
  LET found == get_datasource_json(datasource)
      ds == Datasources[CHOOSE k \in found : \A j \in found : k <= j]
  IN IF found = {} THEN {Raise("DataSourceError")}
     ELSE IF ds.type = "prometheus" THEN query_prometheus(query, data)
     ELSE {Raise("DataSourceError")}

\* ------------------------------------------------------------ dashboard.py
\* A declared variable: dashboard.templating.list[]; options holds the
\* option values (v['value'] of each option).
VarDecl(name, type, options, query, datasource) ==
  [name |-> name, type |-> type, options |-> options, query |-> query,
   datasource |-> datasource]

NotAll(o) == o # ALL
NotAutoInterval(o) == o # AUTO_INTERVAL

\* The type-specific values of __resolve_variable (dashboard.py:117-142)
TypeValues(var, data) ==
  IF var.type = "custom" THEN {List(SelectSeq(var.options, NotAll))}
  ELSE IF var.type = "interval" THEN {List(SelectSeq(var.options, NotAutoInterval))}
  ELSE IF var.type = "query" THEN execute_query(var.query, var.datasource, data)
  ELSE {Raise("VariableError")}

\* The ignore filter with regex.fullmatch in the place of regex.match
IgnoreFilterFullMatch(r, ignore) ==
  IF r.kind = "raise" THEN r
  ELSE IF r.kind = "none" THEN Raise("TypeError")
  ELSE IF ignore = <<>> THEN r
  ELSE LET Kept(o) == o # ignore
       IN List(SelectSeq(r.values, Kept))

\* The ignore filter and list(values) (dashboard.py:144-152): filter() and
\* list() raise TypeError when values is None.
IgnoreFilter(r, ignore) ==
  IF r.kind = "raise" THEN r
  ELSE IF r.kind = "none" THEN Raise("TypeError")
  ELSE IF ignore = <<>> THEN r
  ELSE LET Kept(o) == ~StartsWith(o, ignore)
       IN List(SelectSeq(r.values, Kept))

\* __resolve_variable: every outcome of resolving var, a raised exception or
\* the values of the Variable appended to self.variables
resolve_variable(var, ignore, data) ==
  {IgnoreFilter(r, ignore) : r \in TypeValues(var, data)}

\* The selection with regex.match in the place of regex.fullmatch: a name is
\* selected when an alternative matches at its start
SelectedByMatch(variables, name) ==
  IF variables = <<>> THEN TRUE
  ELSE \E k \in 1..Len(variables) : StartsWith(name, variables[k])

\* regex.fullmatch(name) for regex = compile("|".join(variables)) with names
\* of literal characters: the name is one of the alternatives; the empty
\* pattern of an empty list matches the empty name only.
Selected(variables, name) ==
  IF variables = <<>> THEN name = <<>>
  ELSE \E k \in 1..Len(variables) : variables[k] = name

\* A panel of dashboard.panels[]; targets holds target['expr'] of each target
Panel(id, title, type, targets, collapsed, panels) ==
  [id |-> id, title |-> title, type |-> type, targets |-> targets,
   collapsed |-> collapsed, panels |-> panels]

RECURSIVE Flatten(_)
Flatten(ss) == IF ss = <<>> THEN <<>> ELSE Head(ss) \o Flatten(Tail(ss))

\* create_plots with the test of panel['collapsed'] forgotten: every row is
\* expanded when collapsed rows are rendered
PlotQueueEveryRow(panels, render_collapsed) ==
  Flatten([k \in 1..Len(panels) |->
             IF panels[k].type # "row" THEN <<panels[k]>>
             ELSE IF render_collapsed THEN panels[k].panels
             ELSE <<>>])

\* The panels create_plots passes to create_panel_plot, in order
\* (dashboard.py:165-170)
PlotQueue(panels, render_collapsed) ==
  Flatten([k \in 1..Len(panels) |->
             IF panels[k].type # "row" THEN <<panels[k]>>
             ELSE IF render_collapsed /\ panels[k].collapsed THEN panels[k].panels
             ELSE <<>>])

\* do_var of __rec_create_panel_plot (dashboard.py:223-229)
do_var(name, panel) ==
  \E t \in 1..Len(panel.targets) : Contains(panel.targets[t], name)

\* Keys of the params dict
VarKey(name) == <<"var-", name>>
PanelIdKey == <<"panelId", <<>>>>
HeightKey == <<"height", <<>>>>
WidthKey == <<"width", <<>>>>

\* params[key] = value
DictSet(params, key, value) ==
  [k \in DOMAIN params \cup {key} |-> IF k = key THEN value ELSE params[k]]

\* graph_config defaults of plot_dashboard
DefaultWidth == 1200
DefaultHeight == 500

\* The params of __save_png's render call (dashboard.py:263-268)
RenderParams(params, panel) ==
  LET p1 == DictSet(params, PanelIdKey, panel.id)
  IN IF panel.type = "graph" \/ panel.type = "timeseries"
     THEN DictSet(DictSet(p1, HeightKey, DefaultHeight), WidthKey, DefaultWidth)
     ELSE p1

\* ------------------------------------------------------------ state
VARIABLES
  entry,      \* how the program is entered: "main" (the script) or "run"
  cfg,        \* config.yaml: dashboards, sequential (-s), abort_on_api_error
  grafana,    \* the Grafana instance: uid -> dashboard json (slug, templating, panels)
  promData,   \* the Prometheus datasource's answer ('data') to a query
  runPc,      \* position of main/run: "start", "running", "finished", "crashed"
  task,       \* per configured dashboard: the state of its plot_dashboard call
  fs          \* the output directory: directories made and files written

vars == <<entry, cfg, grafana, promData, runPc, task, fs>>

Tasks == 1..Len(cfg.dashboards)

DashConfig(uid, variables, ignore, collapsed) ==
  [uid |-> uid, variables |-> variables, ignore |-> ignore, collapsed |-> collapsed]

DashJson(slug, templating, panels) ==
  [slug |-> slug, templating |-> templating, panels |-> panels]

\* The dashboard json task i fetched (the backend does not change in a run)
Json(i) == grafana[cfg.dashboards[i].uid]

\* A plot_dashboard call that has not started
NewTask ==
  [pc |-> "pending",        \* pending, resolve, panels, finished
   outcome |-> "none",      \* none, ok, failed (logged), raised (escaped), killed
   exc |-> "none",
   todo |-> <<>>,           \* the selected declarations still to resolve
   variables |-> <<>>,      \* self.variables
   panel_idx |-> 0,         \* position of create_plots in its queue of panels
   params |-> <<>>,         \* the params dict of the current panel's walk
   stack |-> <<>>,          \* frames of __rec_create_panel_plot, innermost first
   requests |-> <<>>]       \* the render requests sent, in order

\* Variable(name, values)
Variable(name, values) == [name |-> name, values |-> values]

Frame(dir, var_index, val_index) ==
  [dir |-> dir, var_index |-> var_index, val_index |-> val_index]

\* The panels task i plots, in order
Queue(i) == PlotQueue(Json(i).panels, cfg.dashboards[i].collapsed)

\* self.current_panel
CurrentPanel(i) == Queue(i)[task[i].panel_idx]

\* The exceptions plot_dashboard catches (plots.py:70)
CaughtByPlotDashboard == {"VariableError", "DataSourceError", "ApiError"}

\* An exception e leaves the code of task i, whose state was rec: the except
\* clause of plot_dashboard logs it, any other exception leaves
\* plot_dashboard, and in sequential mode leaves run and main.
Raised(i, rec, e) ==
  /\ task' = [task EXCEPT ![i] =
                [rec EXCEPT !.pc = "finished",
                            !.outcome = IF e \in CaughtByPlotDashboard
                                        THEN "failed" ELSE "raised",
                            !.exc = e]]
  /\ runPc' = IF e \notin CaughtByPlotDashboard /\ cfg.sequential
              THEN "crashed" ELSE runPc

\* ------------------------------------------------------------ plots.py
\* Parameters GrafanaClient.__init__ accepts (grafana_api.py:30-36)
ClientInitParams ==
  {"base_url", "api_key", "from_ms", "to_ms", "node_exporter_job_name", "tls_verify"}

\* Keyword arguments main passes to GrafanaClient (plots.py:124-132)
MainClientArgs ==
  {"base_url", "api_key", "from_ms", "to_ms", "node_exporter_job_name", "tls_verify",
   "abort_on_error"}

\* main: constructing the client with a keyword __init__ does not accept
\* raises TypeError before run is called.
main ==
  /\ entry = "main"
  /\ runPc = "start"
  /\ runPc' = IF MainClientArgs \subseteq ClientInitParams THEN "running" ELSE "crashed"
  /\ UNCHANGED <<entry, cfg, grafana, promData, task, fs>>

\* run, called with _grafana_client set: the output directory is made
run ==
  /\ entry = "run"
  /\ runPc = "start"
  /\ runPc' = "running"
  /\ UNCHANGED <<entry, cfg, grafana, promData, task, fs>>

\* cpu_count() of the machine (plots.py:92)
CpuCount == 2

Active(i) == task[i].pc \in {"resolve", "panels"}

\* Sequential mode calls plot_dashboard in configured order, each after the
\* one before returned; the pool hands the dashboards out in order to at
\* most cpu_count() workers.
MayStart(i) ==
  /\ task[i].pc = "pending"
  /\ \A j \in 1..(i - 1) : task[j].pc # "pending"
  /\ IF cfg.sequential
     THEN \A j \in 1..(i - 1) : task[j].pc = "finished"
     ELSE Cardinality({j \in Tasks : Active(j)}) < CpuCount

\* plot_dashboard up to the fetch of Dashboard.__init__ (plots.py:50-68,
\* dashboard.py:78-98): get_dashboard_json raises ApiError for a uid Grafana
\* does not know or a failed request; the declared variables are filtered.
StartDashboard(i) ==
  /\ runPc = "running"
  /\ MayStart(i)
  /\ LET c == cfg.dashboards[i]
         Sel(v) == Selected(c.variables, v.name)
     IN \E ok \in BOOLEAN :
          IF ok /\ c.uid \in DOMAIN grafana
          THEN /\ task' = [task EXCEPT ![i] =
                             [@ EXCEPT !.pc = "resolve",
                                       !.todo = SelectSeq(grafana[c.uid].templating, Sel)]]
               /\ UNCHANGED runPc
          ELSE Raised(i, task[i], "ApiError")
  /\ UNCHANGED <<entry, cfg, grafana, promData, fs>>

\* One pass of the loop of Dashboard.__init__ (dashboard.py:101-103)
ResolveVariable(i) ==
  /\ runPc = "running"
  /\ task[i].pc = "resolve"
  /\ task[i].outcome = "none"
  /\ task[i].todo # <<>>
  /\ LET var == Head(task[i].todo)
     IN \E r \in resolve_variable(var, cfg.dashboards[i].ignore, promData) :
          IF r.kind = "raise"
          THEN Raised(i, task[i], r.exc)
          ELSE /\ task' = [task EXCEPT ![i] =
                             [@ EXCEPT !.todo = Tail(@),
                                       !.variables = Append(@, Variable(var.name, r.values))]]
               /\ UNCHANGED runPc
  /\ UNCHANGED <<entry, cfg, grafana, promData, fs>>

\* Path(_dir).mkdir(exist_ok=True): raises OSError when the directory cannot
\* be made (a file of that name, no permission, a full disk)
Mkdir(dir) == fs' = [fs EXCEPT !.dirs = @ \cup {dir}]

\* create_plots up to its loop (dashboard.py:162-163)
CreatePlots(i) ==
  /\ runPc = "running"
  /\ task[i].pc = "resolve"
  /\ task[i].outcome = "none"
  /\ task[i].todo = <<>>
  /\ \E ok \in BOOLEAN :
       IF ok
       THEN /\ Mkdir(<<Json(i).slug>>)
            /\ task' = [task EXCEPT ![i] = [@ EXCEPT !.pc = "panels"]]
            /\ UNCHANGED runPc
       ELSE /\ Raised(i, task[i], "OSError")
            /\ UNCHANGED fs
  /\ UNCHANGED <<entry, cfg, grafana, promData>>

Walking(i) ==
  /\ runPc = "running"
  /\ task[i].pc = "panels"
  /\ task[i].outcome = "none"

\* The loop of create_plots calls create_panel_plot for the next panel
\* (dashboard.py:165-183): the walk starts in the dashboard's directory with
\* empty params.
NextPanel(i) ==
  /\ Walking(i)
  /\ task[i].stack = <<>>
  /\ task[i].panel_idx < Len(Queue(i))
  /\ task' = [task EXCEPT ![i] =
                [@ EXCEPT !.panel_idx = @ + 1,
                          !.params = <<>>,
                          !.stack = <<Frame(<<Json(i).slug>>, 1, 1)>>]]
  /\ UNCHANGED <<entry, cfg, grafana, promData, runPc, fs>>

\* create_plots returns, plot_dashboard logs "finished" (plots.py:73)
FinishDashboard(i) ==
  /\ Walking(i)
  /\ task[i].stack = <<>>
  /\ task[i].panel_idx = Len(Queue(i))
  /\ task' = [task EXCEPT ![i] = [@ EXCEPT !.pc = "finished", !.outcome = "ok"]]
  /\ UNCHANGED <<entry, cfg, grafana, promData, runPc, fs>>

\* ------------------------------------------------------------ the walk
Top(i) == Head(task[i].stack)

\* The variable the innermost frame looks at
CurrentVar(i) == task[i].variables[Top(i).var_index]

AtLeaf(i) == Top(i).var_index = Len(task[i].variables) + 1

\* name of the png: os_path.join(dir, slug + '.png') (dashboard.py:217-218)
PngName(dir, panel) == os_path_join(dir, slugify(panel.title) \o PngSuffix)

\* The directory of a value put under the dashboard directory, above the
\* levels made so far: the nesting reversed
ChildDirReversed(dir, val) ==
  IF slugify(val) = <<>> THEN dir ELSE <<Head(dir), slugify(val)>> \o Tail(dir)

\* _dir of one value (dashboard.py:236-237)
ChildDir(dir, val) == os_path_join(dir, slugify(val))

\* params.setdefault: a binding already in params is kept
BindParamsKeepsFirst(params, name, val) ==
  IF VarKey(name) \in DOMAIN params THEN params ELSE DictSet(params, VarKey(name), val)

\* params[f'var-{name}'] = val (dashboard.py:239)
BindParams(params, name, val) == DictSet(params, VarKey(name), val)

\* The call for a variable the panel does not use (dashboard.py:245-247)
SkipFrame(top) == Frame(top.dir, top.var_index + 1, 1)

\* open(name, 'wb') and write: the file holds the response of request n of task i
WriteFile(name, i, n) ==
  fs' = [fs EXCEPT !.files =
           {f \in @ : f.name # name} \cup {[name |-> name, content |-> <<i, n>>]}]

\* __save_png with a response that is not ok passed on by __do_request: the
\* test of result.ok skips the write and the walk goes on
SavePngSkipsFailure(i) ==
  /\ Walking(i)
  /\ task[i].stack # <<>>
  /\ AtLeaf(i)
  /\ LET panel == CurrentPanel(i)
         name == PngName(Top(i).dir, panel)
         params == RenderParams(task[i].params, panel)
         n == Len(task[i].requests) + 1
         Sent(ok) == [task[i] EXCEPT
                        !.params = params,
                        !.requests = Append(@, [panelId |-> panel.id, params |-> params,
                                                name |-> name, ok |-> ok])]
     IN \E ok \in BOOLEAN, written \in BOOLEAN :
          IF ~ok
          THEN /\ written
               /\ task' = [task EXCEPT ![i] = [Sent(FALSE) EXCEPT !.stack = Tail(@)]]
               /\ UNCHANGED <<fs, runPc>>
          ELSE IF ~written
          THEN /\ Raised(i, Sent(TRUE), "OSError")
               /\ UNCHANGED fs
          ELSE /\ task' = [task EXCEPT ![i] = [Sent(TRUE) EXCEPT !.stack = Tail(@)]]
               /\ WriteFile(name, i, n)
               /\ UNCHANGED runPc
  /\ UNCHANGED <<entry, cfg, grafana, promData>>

\* The last call of the recursion (dashboard.py:211-220) and __save_png: the
\* render request is sent with the params dict, which __save_png extends in
\* place; a response that is not ok raises ApiError in __do_request, opening
\* the file can raise OSError.
SavePng(i) ==
  /\ Walking(i)
  /\ task[i].stack # <<>>
  /\ AtLeaf(i)
  /\ LET panel == CurrentPanel(i)
         name == PngName(Top(i).dir, panel)
         params == RenderParams(task[i].params, panel)
         n == Len(task[i].requests) + 1
         Sent(ok) == [task[i] EXCEPT
                        !.params = params,
                        !.requests = Append(@, [panelId |-> panel.id, params |-> params,
                                                name |-> name, ok |-> ok])]
     IN \E ok \in BOOLEAN, written \in BOOLEAN :
          IF ~ok
          THEN /\ written
               /\ Raised(i, Sent(FALSE), "ApiError")
               /\ UNCHANGED fs
          ELSE IF ~written
          THEN /\ Raised(i, Sent(TRUE), "OSError")
               /\ UNCHANGED fs
          ELSE /\ task' = [task EXCEPT ![i] = [Sent(TRUE) EXCEPT !.stack = Tail(@)]]
               /\ WriteFile(name, i, n)
               /\ UNCHANGED runPc
  /\ UNCHANGED <<entry, cfg, grafana, promData>>

\* One pass of the loop over the values of a variable the panel uses
\* (dashboard.py:231-242): the directory of the value is made, the value is
\* bound in params and the recursion goes to the next variable.
BindValue(i) ==
  /\ Walking(i)
  /\ task[i].stack # <<>>
  /\ ~AtLeaf(i)
  /\ do_var(CurrentVar(i).name, CurrentPanel(i))
  /\ Top(i).val_index <= Len(CurrentVar(i).values)
  /\ LET top == Top(i)
         val == CurrentVar(i).values[top.val_index]
         dir == ChildDir(top.dir, val)
     IN \E ok \in BOOLEAN :
          IF ok
          THEN /\ Mkdir(dir)
               /\ task' = [task EXCEPT ![i] =
                    [@ EXCEPT !.params = BindParams(@, CurrentVar(i).name, val),
                              !.stack = <<Frame(dir, top.var_index + 1, 1),
                                          [top EXCEPT !.val_index = @ + 1]>>
                                        \o Tail(@)]]
               /\ UNCHANGED runPc
          ELSE /\ Raised(i, task[i], "OSError")
               /\ UNCHANGED fs
  /\ UNCHANGED <<entry, cfg, grafana, promData>>

\* The loop over the values is over: the call returns
ReturnFrame(i) ==
  /\ Walking(i)
  /\ task[i].stack # <<>>
  /\ ~AtLeaf(i)
  /\ do_var(CurrentVar(i).name, CurrentPanel(i))
  /\ Top(i).val_index > Len(CurrentVar(i).values)
  /\ task' = [task EXCEPT ![i] = [@ EXCEPT !.stack = Tail(@)]]
  /\ UNCHANGED <<entry, cfg, grafana, promData, runPc, fs>>

\* A variable the panel does not use: the next one is checked with the same
\* directory and params (a call in tail position)
SkipVariable(i) ==
  /\ Walking(i)
  /\ task[i].stack # <<>>
  /\ ~AtLeaf(i)
  /\ ~do_var(CurrentVar(i).name, CurrentPanel(i))
  /\ task' = [task EXCEPT ![i] = [@ EXCEPT !.stack = <<SkipFrame(Top(i))>> \o Tail(@)]]
  /\ UNCHANGED <<entry, cfg, grafana, promData, runPc, fs>>

\* ------------------------------------------------------------ end of run
\* run returns: sequential mode after the last plot_dashboard, pool mode when
\* pool.map has every result (plots.py:87-97)
RunFinished ==
  /\ runPc = "running"
  /\ \A i \in Tasks : task[i].outcome \in {"ok", "failed"}
  /\ runPc' = "finished"
  /\ UNCHANGED <<entry, cfg, grafana, promData, task, fs>>

\* Pool mode: pool.map re-raises a worker's exception in the parent, which
\* leaves run and main; the exiting interpreter terminates the pool, whatever
\* its workers are doing.
PoolMapRaises ==
  /\ runPc = "running"
  /\ ~cfg.sequential
  /\ \E i \in Tasks : task[i].outcome = "raised"
  /\ runPc' = "crashed"
  /\ task' = [i \in Tasks |->
                IF task[i].outcome = "none"
                THEN [task[i] EXCEPT !.pc = "finished", !.outcome = "killed"]
                ELSE task[i]]
  /\ UNCHANGED <<entry, cfg, grafana, promData, fs>>

\* ------------------------------------------------------------ inputs
A == <<"a">>
B == <<"b">>
N1 == <<"n", "1">>
N1Upper == <<"N", "1">>
N2 == <<"n", "2">>
Slash == <<"/">>
Up == <<"u", "p">>
RefA == <<"$", "a">>
RefB == <<"$", "b">>
TitleCpu == <<"C", "P", "U", " ", "l", "o", "a", "d">>
TitleMem == <<"M", "e", "m">>
QLabel == LabelValuesPrefix \o <<"j", "o", "b", ")">>
QSeries == LabelValuesPrefix \o <<"u", "p", ",", " ", "j", "o", "b", ")">>
QOther == <<"u", "p">>
QInside == <<"x">> \o QLabel
NoDs == ByName("")

CustomVar(name, options) == VarDecl(name, "custom", options, <<>>, NoDs)

\* Two top-level panels: a graph, and a row holding a stat panel
Panels(targets, collapsed) ==
  << Panel("1", TitleCpu, "graph", targets, FALSE, <<>>),
     Panel("2", <<"r", "o", "w">>, "row", <<>>, collapsed,
           << Panel("3", TitleMem, "stat", <<RefB>>, FALSE, <<>>) >>) >>

InitTasks ==
  /\ runPc = "start"
  /\ task = [i \in 1..Len(cfg.dashboards) |-> NewTask]
  /\ fs = [dirs |-> {}, files |-> {}]

\* Values of variable a: two with one slug, one with an empty slug; and of
\* variable b: two with different slugs
WalkValuesA == {N1, N1Upper, Slash}
WalkValuesB == {N1, N2}
WalkTargets == {<<>>, <<RefA>>, <<Up, RefB>>, <<RefA, RefB>>}
WalkSlug == <<"w", "a", "l", "k">>

\* One dashboard with the custom variables a and b, both selected
InitWalk ==
  /\ entry = "run"
  /\ \E rc \in BOOLEAN :
       cfg = [dashboards |-> <<DashConfig("walk", <<A, B>>, <<>>, rc)>>,
              sequential |-> TRUE, abort_on_api_error |-> FALSE]
  /\ \E la \in SeqsUpTo(WalkValuesA, MaxValues), lb \in SeqsUpTo(WalkValuesB, MaxValues),
        t \in WalkTargets, collapsed \in BOOLEAN :
       grafana = [u \in {"walk"} |->
                    DashJson(WalkSlug, <<CustomVar(A, la), CustomVar(B, lb)>>,
                             Panels(t, collapsed))]
  /\ promData = <<>>
  /\ InitTasks

ResolveValues == {N1, N2, ALL, AUTO_INTERVAL}
PromValues == {N1, N2, ALL, <<>>}
Queries == {QLabel, QSeries, QOther, QInside}
DsRefs == {ByName("Prometheus"), ByUid("prom-uid"), ByName("Loki"), ByUid("pg-uid"),
           ByName("gone")}
\* Ignore patterns: none, one matching n1 only, one matching n1 and n2 at
\* their start without matching either in full
IgnoreN == <<"n">>
Ignores == {<<>>, N1, IgnoreN}

\* One dashboard with one declared and selected variable a, of any type
InitResolve ==
  /\ entry = "run"
  /\ \E ig \in Ignores :
       cfg = [dashboards |-> <<DashConfig("resolve", <<A>>, ig, TRUE)>>,
              sequential |-> TRUE, abort_on_api_error |-> FALSE]
  /\ \E decl \in
          {VarDecl(A, t, o, <<>>, NoDs) :
             t \in {"custom", "interval"}, o \in SeqsUpTo(ResolveValues, MaxValues)}
          \cup {VarDecl(A, "query", <<>>, q, ds) : q \in Queries, ds \in DsRefs}
          \cup {VarDecl(A, "textbox", <<>>, <<>>, NoDs)} :
       /\ grafana = [u \in {"resolve"} |->
                       DashJson(<<"r", "e", "s">>, <<decl>>, Panels(<<RefA>>, TRUE))]
       /\ promData \in IF decl.type = "query"
                       THEN SeqsUpTo(PromValues, MaxValues) ELSE {<<>>}
  /\ InitTasks

\* The variables lists config.yaml can give for the dashboard "select": none,
\* one name, both names in and against the order of declaration
AB == <<"a", "b">>
SelectValues == {N1, N2}
SelectConfigs == {<<>>, <<A>>, <<B>>, <<A, B>>, <<B, A>>}

\* One dashboard declaring the custom variables a and b and, between them, a
\* textbox variable ab that is never configured
InitSelect ==
  /\ entry = "run"
  /\ \E names \in SelectConfigs, rc \in BOOLEAN :
       cfg = [dashboards |-> <<DashConfig("select", names, <<>>, rc)>>,
              sequential |-> TRUE, abort_on_api_error |-> FALSE]
  /\ \E la \in SeqsUpTo(SelectValues, MaxValues), lb \in SeqsUpTo(SelectValues, MaxValues),
        t \in {<<RefA>>, <<RefA, RefB>>} :
       grafana = [u \in {"select"} |->
                    DashJson(<<"s", "e", "l">>,
                             <<CustomVar(A, la), VarDecl(AB, "textbox", <<>>, <<>>, NoDs),
                               CustomVar(B, lb)>>,
                             Panels(t, TRUE))]
  /\ promData = <<>>
  /\ InitTasks

\* The Grafana instance of the batch
BatchGrafana ==
  [u \in {"good", "rows", "badtype", "nomatch", "loki"} |->
     CASE u = "good" ->
            DashJson(<<"g", "o", "o", "d">>, <<CustomVar(A, <<N1, N2>>)>>,
                     Panels(<<RefA>>, TRUE))
       [] u = "rows" ->
            DashJson(<<"r", "o", "w", "s">>, <<>>, Panels(<<Up>>, TRUE))
       [] u = "badtype" ->
            DashJson(<<"b", "a", "d">>, <<VarDecl(A, "textbox", <<>>, <<>>, NoDs)>>,
                     Panels(<<RefA>>, FALSE))
       [] u = "nomatch" ->
            DashJson(<<"n", "o">>,
                     <<VarDecl(A, "query", <<>>, QOther, ByName("Prometheus")),
                       VarDecl(B, "textbox", <<>>, <<>>, NoDs)>>,
                     Panels(<<RefA>>, FALSE))
       [] u = "loki" ->
            DashJson(<<"l", "o", "k", "i">>,
                     <<VarDecl(A, "query", <<>>, QLabel, ByName("Loki"))>>,
                     Panels(<<RefA>>, FALSE))]

\* The dashboards config.yaml can list; "gone" is a uid Grafana does not know
BatchConfigs ==
  {DashConfig("good", <<A>>, <<>>, TRUE), DashConfig("rows", <<>>, <<>>, FALSE),
   DashConfig("badtype", <<A>>, <<>>, FALSE), DashConfig("nomatch", <<A, B>>, <<>>, FALSE),
   DashConfig("loki", <<A>>, <<>>, FALSE), DashConfig("gone", <<>>, <<>>, FALSE)}

Init ==
  /\ entry \in {"main", "run"}
  /\ \E ds \in SeqsUpTo(BatchConfigs, MaxBatch) \ {<<>>},
        seq \in BOOLEAN, abort \in BOOLEAN :
       cfg = [dashboards |-> ds, sequential |-> seq, abort_on_api_error |-> abort]
  /\ grafana = BatchGrafana
  /\ promData = <<N1, N2>>
  /\ InitTasks

\* ------------------------------------------------------------ specifications
Next ==
  \/ main
  \/ run
  \/ \E i \in Tasks : StartDashboard(i)
  \/ \E i \in Tasks : ResolveVariable(i)
  \/ \E i \in Tasks : CreatePlots(i)
  \/ \E i \in Tasks : NextPanel(i)
  \/ \E i \in Tasks : SavePng(i)
  \/ \E i \in Tasks : BindValue(i)
  \/ \E i \in Tasks : ReturnFrame(i)
  \/ \E i \in Tasks : SkipVariable(i)
  \/ \E i \in Tasks : FinishDashboard(i)
  \/ RunFinished
  \/ PoolMapRaises

\* One dashboard, plotted by run in sequential mode
NextDashboard ==
  \/ run
  \/ \E i \in Tasks : StartDashboard(i)
  \/ \E i \in Tasks : ResolveVariable(i)
  \/ \E i \in Tasks : CreatePlots(i)
  \/ \E i \in Tasks : NextPanel(i)
  \/ \E i \in Tasks : SavePng(i)
  \/ \E i \in Tasks : BindValue(i)
  \/ \E i \in Tasks : ReturnFrame(i)
  \/ \E i \in Tasks : SkipVariable(i)
  \/ \E i \in Tasks : FinishDashboard(i)
  \/ RunFinished

Spec == Init /\ [][Next]_vars
SpecWalk == InitWalk /\ [][NextDashboard]_vars
SpecResolve == InitResolve /\ [][NextDashboard]_vars
SpecSelect == InitSelect /\ [][NextDashboard]_vars

\* ------------------------------------------------------------ properties
IsPrefix(s, t) == Len(s) <= Len(t) /\ SubSeq(t, 1, Len(s)) = s

NoDuplicates(s) == \A p, q \in 1..Len(s) : s[p] = s[q] => p = q

\* Task i holds a fetched dashboard, or its fetch failed
Fetched(i) ==
  /\ cfg.dashboards[i].uid \in DOMAIN grafana
  /\ task[i].pc # "pending"

\* Task i is in create_plots or left it, with its VariableSet resolved
InPlots(i) ==
  /\ cfg.dashboards[i].uid \in DOMAIN grafana
  /\ task[i].panel_idx > 0

\* The number of panels of task i whose walk returned
Completed(i) ==
  IF task[i].stack = <<>> THEN task[i].panel_idx ELSE task[i].panel_idx - 1

\* The requests task i sent for the panel with this id, in order
RequestsOf(i, id) == SelectSeq(task[i].requests, LAMBDA r : r.panelId = id)

\* The var- entries of a params dict
VarBindings(params) ==
  [k \in {x \in DOMAIN params : x[1] = "var-"} |-> params[k]]

RECURSIVE Product(_, _, _)
\* The Cartesian product of the value lists of the variables k.. that are
\* relevant to the panel, as bindings, the first variable varying slowest
Product(variables, panel, k) ==
  IF k > Len(variables) THEN << <<>> >>
  ELSE IF ~do_var(variables[k].name, panel) THEN Product(variables, panel, k + 1)
  ELSE LET rest == Product(variables, panel, k + 1)
       IN Flatten([j \in 1..Len(variables[k].values) |->
                     [m \in 1..Len(rest) |->
                        DictSet(rest[m], VarKey(variables[k].name),
                                variables[k].values[j])]])

RECURSIVE ProductSize(_, _, _)
ProductSize(variables, panel, k) ==
  IF k > Len(variables) THEN 1
  ELSE (IF do_var(variables[k].name, panel) THEN Len(variables[k].values) ELSE 1)
       * ProductSize(variables, panel, k + 1)

RelevantNames(variables, panel) ==
  {variables[k].name : k \in {j \in 1..Len(variables) : do_var(variables[j].name, panel)}}

\* C4: for every panel walked, the requests sent for it are, one each and in
\* order, the elements of the Cartesian product of the value lists of the
\* variables relevant to it (one request when none is relevant, none when a
\* relevant variable has no values): a prefix of it while the walk runs or
\* after it failed, all of it once the walk returned.  Each request binds
\* var-<name> for exactly the relevant variables.
C4_CartesianProduct ==
  \A i \in Tasks :
    InPlots(i) =>
      \A k \in 1..Len(Queue(i)) :
        LET panel == Queue(i)[k]
            reqs == RequestsOf(i, panel.id)
            bound == [n \in 1..Len(reqs) |-> VarBindings(reqs[n].params)]
            product == Product(task[i].variables, panel, 1)
        IN /\ IsPrefix(bound, product)
           /\ k > task[i].panel_idx => reqs = <<>>
           /\ k <= Completed(i) =>
                /\ bound = product
                /\ Len(reqs) = ProductSize(task[i].variables, panel, 1)
           /\ \A n \in 1..Len(reqs) :
                {x[2] : x \in DOMAIN bound[n]} = RelevantNames(task[i].variables, panel)

\* A dashboard finished whose graph panel uses both variables, each with two
\* values: four requests were sent for it.
C4_Witness ==
  \E i \in Tasks :
    /\ task[i].outcome = "ok"
    /\ RelevantNames(task[i].variables, Queue(i)[1]) = {A, B}
    /\ \A k \in 1..2 : Len(task[i].variables[k].values) = 2
    /\ Len(RequestsOf(i, Queue(i)[1].id)) = 4

\* A path without its empty components (a//b names a/b)
NormPath(path) == SelectSeq(path, LAMBDA c : c # <<>>)

\* <dashboard directory>/<slug(v1)>/.../<slug(vk)>/<slug(title)>.png for the
\* values a request binds to the relevant variables, in declaration order
ExpectedName(i, req, panel) ==
  LET rel == SelectSeq(task[i].variables, LAMBDA v : do_var(v.name, panel))
  IN NormPath(<<Json(i).slug>>
              \o [k \in 1..Len(rel) |-> slugify(req.params[VarKey(rel[k].name)])]
              \o <<slugify(panel.title) \o PngSuffix>>)

PanelOf(i, id) == Queue(i)[CHOOSE k \in 1..Len(Queue(i)) : Queue(i)[k].id = id]

\* C5: every image is written to the dashboard directory, then one level per
\* relevant variable in declaration order named by the slug of the value
\* bound to it, then <slug(title)>.png; a variable that is not relevant adds
\* no level and no binding.
C5_DirectoryNesting ==
  /\ \A i \in Tasks :
       InPlots(i) =>
         \A n \in 1..Len(task[i].requests) :
           LET req == task[i].requests[n]
               panel == PanelOf(i, req.panelId)
           IN /\ req.name = ExpectedName(i, req, panel)
              /\ {x[2] : x \in DOMAIN VarBindings(req.params)}
                   = RelevantNames(task[i].variables, panel)
  /\ \A f \in fs.files :
       LET req == task[f.content[1]].requests[f.content[2]]
       IN /\ req.ok
          /\ f.name = req.name

\* An image was written two levels deep, the levels named differently: both
\* variables are relevant, and the value of the first one names the outer
\* level.
C5_Witness ==
  \E i \in Tasks : \E f \in fs.files :
    /\ f.content[1] = i
    /\ Len(f.name) = 4
    /\ f.name[2] # f.name[3]
    /\ f.name[2] = slugify(task[i].requests[f.content[2]].params[VarKey(A)])

\* C6: no request is ever sent for a top-level row panel; a request for a
\* panel inside a row is sent only when collapsed rows are rendered and the
\* row is collapsed, and its image lies where a top-level panel's would (the
\* row adds no level); a finished dashboard has walked every panel of such a
\* row.
C6_Rows ==
  \A i \in Tasks :
    Fetched(i) =>
      \A r \in 1..Len(Json(i).panels) :
        LET row == Json(i).panels[r]
            expand == cfg.dashboards[i].collapsed /\ row.collapsed
        IN row.type = "row" =>
             /\ RequestsOf(i, row.id) = <<>>
             /\ \A c \in 1..Len(row.panels) :
                  LET child == row.panels[c]
                      reqs == RequestsOf(i, child.id)
                  IN /\ ~expand => reqs = <<>>
                     /\ \A n \in 1..Len(reqs) :
                          reqs[n].name = ExpectedName(i, reqs[n], child)
                     /\ (expand /\ task[i].outcome = "ok") =>
                          Len(reqs) = ProductSize(task[i].variables, child, 1)

\* A dashboard with a collapsed row, rendered with collapsed rows, sent a
\* request for the panel inside the row.
C6_Witness ==
  \E i \in Tasks :
    /\ Fetched(i)
    /\ task[i].outcome = "ok"
    /\ \E r \in 1..Len(Json(i).panels) :
         /\ Json(i).panels[r].type = "row"
         /\ Json(i).panels[r].collapsed
         /\ cfg.dashboards[i].collapsed
         /\ \E c \in 1..Len(Json(i).panels[r].panels) :
              RequestsOf(i, Json(i).panels[r].panels[c].id) # <<>>

\* The declaration of the variable of this name in the dashboard of task i
DeclOf(i, name) ==
  LET list == Json(i).templating
  IN list[CHOOSE k \in 1..Len(list) :
            list[k].name = name /\ \A j \in 1..(k - 1) : list[j].name # name]

\* The resolved variables of task i with their declarations
Resolved(i) ==
  IF cfg.dashboards[i].uid \in DOMAIN grafana
  THEN {[var |-> task[i].variables[k], decl |-> DeclOf(i, task[i].variables[k].name)] :
          k \in 1..Len(task[i].variables)}
  ELSE {}

\* C1: no exception leaves plot_dashboard, and when the batch is over every
\* configured dashboard was processed to its own success or logged failure.
C1_FailureIsolated ==
  /\ \A i \in Tasks : task[i].outcome # "raised"
  /\ (runPc \in {"finished", "crashed"} /\ \E i \in Tasks : task[i].pc # "pending")
       => \A i \in Tasks : task[i].outcome \in {"ok", "failed"}

\* Dashboard i declares a selected variable of a type other than custom,
\* interval and query
UnknownTypeSelected(i) ==
  /\ cfg.dashboards[i].uid \in DOMAIN grafana
  /\ \E k \in 1..Len(Json(i).templating) :
       /\ Selected(cfg.dashboards[i].variables, Json(i).templating[k].name)
       /\ Json(i).templating[k].type \notin {"custom", "interval", "query"}

\* C2: a dashboard with a selected variable of an unknown type ends in a
\* logged failure without a render request, and every other dashboard of the
\* batch is processed to its own end (success, logged failure or an exception
\* of its own).
C2_UnknownTypeIsolated ==
  \A x \in Tasks :
    (UnknownTypeSelected(x) /\ task[x].pc = "finished") =>
      /\ task[x].outcome = "failed"
      /\ task[x].requests = <<>>
      /\ runPc \in {"finished", "crashed"} =>
           \A y \in Tasks \ {x} : task[y].outcome \in {"ok", "failed", "raised"}

\* C3: with abort-on-error configured, once a dashboard failed with ApiError,
\* DataSourceError or VariableError no dashboard that has not started is
\* started.
C3_AbortHalts ==
  [][(cfg.abort_on_api_error /\ \E j \in Tasks : task[j].outcome = "failed")
       => \A i \in Tasks : task[i].pc = "pending" => task'[i].pc = "pending"]_vars

\* C7: the values of a resolved custom or interval variable hold neither
\* $__all nor $__auto_interval_interval, and no value twice.
C7_NoSentinelNoDuplicate ==
  \A i \in Tasks : \A r \in Resolved(i) :
    r.decl.type \in {"custom", "interval"} =>
      /\ ALL \notin Range(r.var.values)
      /\ AUTO_INTERVAL \notin Range(r.var.values)
      /\ NoDuplicates(r.var.values)

\* C8: the values of a resolved query variable hold no value twice, no
\* $__all and no empty string, on the label path and on the series path; the
\* answer [n1, n2, $__all] resolves to [n1, n2].
C8_QueryValuesClean ==
  \A i \in Tasks : \A r \in Resolved(i) :
    r.decl.type = "query" =>
      /\ NoDuplicates(r.var.values)
      /\ ALL \notin Range(r.var.values)
      /\ <<>> \notin Range(r.var.values)
      /\ (promData = <<N1, N2, ALL>> /\ cfg.dashboards[i].ignore = <<>>)
           => r.var.values = <<N1, N2>>

\* The values the source of a variable produced: its declared options, or
\* the datasource's answer
SourceValues(decl) == IF decl.type = "query" THEN promData ELSE decl.options

FirstIndex(s, x) == CHOOSE k \in 1..Len(s) : s[k] = x /\ \A j \in 1..(k - 1) : s[j] # x

\* C9: the values of a resolved variable are values of its source, each once,
\* in the order of their first occurrence in the source.
C9_OrderPreserved ==
  \A i \in Tasks : \A r \in Resolved(i) :
    LET src == SourceValues(r.decl)
        vals == r.var.values
    IN /\ Range(vals) \subseteq Range(src)
       /\ NoDuplicates(vals)
       /\ \A p, q \in 1..Len(vals) :
            p < q => FirstIndex(src, vals[p]) < FirstIndex(src, vals[q])

\* The first selected variable of dashboard i is a query variable of a
\* Prometheus datasource whose query is not a label_values query
UnsupportedGrammar(i) ==
  /\ cfg.dashboards[i].uid \in DOMAIN grafana
  /\ LET sel == SelectSeq(Json(i).templating,
                          LAMBDA v : Selected(cfg.dashboards[i].variables, v.name))
     IN /\ sel # <<>>
        /\ sel[1].type = "query"
        /\ get_datasource_json(sel[1].datasource) # {}
        /\ \A k \in get_datasource_json(sel[1].datasource) :
             Datasources[k].type = "prometheus"
        /\ ~label_values_regex(sel[1].query).matched

\* C10: a query variable with a query outside the label_values grammar
\* resolves to no values without an error, and its dashboard is processed
\* further.
C10_UnsupportedGrammarEmpty ==
  \A i \in Tasks :
    UnsupportedGrammar(i) =>
      /\ task[i].exc \notin {"TypeError", "VariableError", "DataSourceError"}
      /\ Len(task[i].variables) >= 1 => task[i].variables[1].values = <<>>

\* vals is src without the values the pattern matches at their start, the
\* others kept, each as often as in src and in the order of src
IsFiltered(vals, src, pattern) ==
  \E f \in [1..Len(vals) -> 1..Len(src)] :
    /\ \A p, q \in 1..Len(vals) : p < q => f[p] < f[q]
    /\ \A k \in 1..Len(vals) : src[f[k]] = vals[k]
    /\ \A j \in 1..Len(src) :
         (\E k \in 1..Len(vals) : f[k] = j) <=> ~IsPrefix(pattern, src[j])

\* C11: the values of a resolved variable of any supported type are the
\* type-specific values without the values the ignore pattern matches, the
\* others kept in their order; with an empty pattern they are the
\* type-specific values.
C11_IgnoreFilter ==
  \A i \in Tasks : \A r \in Resolved(i) :
    \E t \in TypeValues(r.decl, promData) :
      /\ t.kind = "list"
      /\ IF cfg.dashboards[i].ignore = <<>>
         THEN r.var.values = t.values
         ELSE IsFiltered(r.var.values, t.values, cfg.dashboards[i].ignore)

\* A query variable answered [n1, n2] resolved to [n2] under a pattern that
\* matches n1
C11_Witness ==
  \E i \in Tasks : \E r \in Resolved(i) :
    /\ r.decl.type = "query"
    /\ promData = <<N1, N2>>
    /\ cfg.dashboards[i].ignore = N1
    /\ r.var.values = <<N2>>

\* Render request n of task i was answered with a response that is not ok
RenderFailed(i, n) == ~task[i].requests[n].ok

\* Render request n of task i was answered ok and its file was written: the
\* walk went on after it
Rendered(i, n) ==
  /\ task[i].requests[n].ok
  /\ n < Len(task[i].requests) \/ task[i].exc # "OSError"

\* C12: a render request answered with a response that is not ok wrote no
\* file, is the last request of its dashboard, and its dashboard ended as a
\* logged failure; the files of the renders before it are on disk.
C12_RenderFailure ==
  \A i \in Tasks : \A n \in 1..Len(task[i].requests) :
    RenderFailed(i, n) =>
      /\ \A f \in fs.files : f.content # <<i, n>>
      /\ n = Len(task[i].requests)
      /\ task[i].pc = "finished"
      /\ task[i].outcome = "failed"
      /\ task[i].exc = "ApiError"
      /\ \A m \in 1..(n - 1) :
           Rendered(i, m) /\ \E f \in fs.files : f.name = task[i].requests[m].name

\* A dashboard whose third render request failed after two renders that
\* wrote two files
C12_Witness ==
  \E i \in Tasks :
    /\ Len(task[i].requests) = 3
    /\ RenderFailed(i, 3)
    /\ task[i].outcome = "failed"
    /\ task[i].requests[1].name # task[i].requests[2].name
    /\ \A m \in 1..2 : \E f \in fs.files :
         f.name = task[i].requests[m].name /\ f.content = <<i, m>>

\* C13: two render requests of one panel that bind different values go to
\* different file paths, so that every written render of a panel has its own
\* file, also for values with the same or an empty slug.
C13_DistinctPaths ==
  \A i \in Tasks : \A n, m \in 1..Len(task[i].requests) :
    LET rn == task[i].requests[n]
        rm == task[i].requests[m]
    IN (rn.panelId = rm.panelId /\ VarBindings(rn.params) # VarBindings(rm.params))
         => /\ rn.name # rm.name
            /\ (Rendered(i, n) /\ Rendered(i, m))
                 => \E f \in fs.files : f.content = <<i, n>>

\* The names of the declared variables of task i that are configured, in the
\* order of their declaration
ExpectedNames(i) ==
  LET names == [k \in 1..Len(Json(i).templating) |-> Json(i).templating[k].name]
  IN SelectSeq(names, LAMBDA n : n \in Range(cfg.dashboards[i].variables))

\* The top-level panels of task i that are not rows
TopLevelPanels(i) == SelectSeq(Json(i).panels, LAMBDA p : p.type # "row")

\* C14: the variables of a dashboard are the declared variables whose name
\* is a configured name, in the order of declaration; no other variable is
\* resolved or bound in a render request; with no configured name there is
\* no variable, no request binds a value and no panel is requested twice,
\* and a dashboard plotted to its end requested every top-level panel that
\* is not a row once.
C14_VariableSelection ==
  \A i \in Tasks :
    (cfg.dashboards[i].uid \in DOMAIN grafana /\ task[i].pc # "pending") =>
      LET names == [k \in 1..Len(task[i].variables) |-> task[i].variables[k].name]
          left == [k \in 1..Len(task[i].todo) |-> task[i].todo[k].name]
      IN /\ task[i].exc # "VariableError"
         /\ names \o left = ExpectedNames(i) \/ task[i].outcome \in {"failed", "raised"}
         /\ IsPrefix(names, ExpectedNames(i))
         /\ task[i].pc = "panels" => names = ExpectedNames(i)
         /\ \A n \in 1..Len(task[i].requests) :
              \A key \in DOMAIN VarBindings(task[i].requests[n].params) :
                key[2] \in Range(ExpectedNames(i))
         /\ cfg.dashboards[i].variables = <<>> =>
              /\ task[i].variables = <<>>
              /\ \A n \in 1..Len(task[i].requests) :
                   DOMAIN VarBindings(task[i].requests[n].params) = {}
              /\ \A k \in 1..Len(Queue(i)) : Len(RequestsOf(i, Queue(i)[k].id)) <= 1
              /\ task[i].outcome = "ok" =>
                   \A k \in 1..Len(TopLevelPanels(i)) :
                     Len(RequestsOf(i, TopLevelPanels(i)[k].id)) = 1

\* A dashboard configured with the names b, a, plotted to its end with the
\* variables a, b in this order and a request that binds both
C14_Witness ==
  \E i \in Tasks :
    /\ cfg.dashboards[i].variables = <<B, A>>
    /\ task[i].outcome = "ok"
    /\ [k \in 1..Len(task[i].variables) |-> task[i].variables[k].name] = <<A, B>>
    /\ \E n \in 1..Len(task[i].requests) :
         DOMAIN VarBindings(task[i].requests[n].params) = {VarKey(A), VarKey(B)}

====
